---------------------------- MODULE Spec2Model ----------------------------
(***************************************************************************)
(* State-machine model of the mujoco.elasticity.solid plugin               *)
(* (src/plugin/elasticity/solid.cc, src/plugin/elasticity/elasticity.h).   *)
(*                                                                         *)
(* mjtNum values are exact rationals <<n, d>> in lowest terms with d > 0.  *)
(* A value with d = 0 stands for a non-finite double (inf or NaN): it is   *)
(* what a division by zero produces, and it absorbs every later operation. *)
(* Integer-valued host inputs (positions, edge lengths) are kept as        *)
(* integers until the code first divides.                                  *)
(***************************************************************************)
EXTENDS Integers, Sequences, FiniteSets, TLC

VARIABLES
  cfg,             \* plugin configuration of the instance (attribute texts)
  xvert0,          \* m->flex_xvert0: rest vertex positions
  bodies,          \* m->flex_vertbodyid, m->body_simple, m->body_dofnum
  flex_stiffness,  \* m->flex_stiffness: packed metric tensors, 21 per element
  phase,           \* host lifecycle: "load", "live", "failed", "aborted", "dead"
  init_result,     \* value returned by plugin.init (2: not called yet)
  plugin_data,     \* d->plugin_data[instance]: 0 or 1 (a Solid is stored)
  solid,           \* the Solid object: damping, nv, ne, f0, prev, elongation, force
  flexedge_length, \* d->flexedge_length: deformed edge lengths of the last step
  flexvert_xpos,   \* d->flexvert_xpos: vertex positions of the last step
  qfrc_in,         \* d->qfrc_passive on entry to the last Compute
  qfrc_passive,    \* d->qfrc_passive on return from the last Compute
  ft_calls,        \* calls of mj_applyFT made by the last Compute
  prev_access,     \* whether the last Compute read / wrote the prev buffer
  repeated         \* whether the last Compute got the same edge lengths and
                   \* vertex positions as the Compute before it

vars == <<cfg, xvert0, bodies, flex_stiffness, phase, init_result, plugin_data,
          solid, flexedge_length, flexvert_xpos, qfrc_in, qfrc_passive,
          ft_calls, prev_access, repeated>>

-----------------------------------------------------------------------------
\* Bounds of the model.

\* edge lengths supplied by the host range over 1..MaxLen
MaxLen == 2
\* the damping attribute ranges over 0..MaxDamp
MaxDamp == 1

-----------------------------------------------------------------------------
\* mjtNum arithmetic.

Abs(n) == IF n < 0 THEN -n ELSE n

RECURSIVE GCD(_, _)
GCD(a, b) == IF b = 0 THEN a ELSE GCD(b, a % b)

NonFinite == <<0, 0>>
IsFinite(a) == a[2] # 0

RNorm(n, d) ==
  IF d = 0 THEN NonFinite
  ELSE LET g == GCD(Abs(n), Abs(d))
           s == IF d < 0 THEN -1 ELSE 1
       IN <<s * (IF n < 0 THEN -(Abs(n) \div g) ELSE n \div g), Abs(d) \div g>>

R(n) == <<n, 1>>
Zero == R(0)

RAdd(a, b) == IF a[2] = 0 \/ b[2] = 0 THEN NonFinite
              ELSE IF a[2] = b[2] /\ a[2] = 1 THEN <<a[1] + b[1], 1>>
              ELSE RNorm(a[1] * b[2] + b[1] * a[2], a[2] * b[2])
RSub(a, b) == IF a[2] = 0 \/ b[2] = 0 THEN NonFinite
              ELSE IF a[2] = b[2] /\ a[2] = 1 THEN <<a[1] - b[1], 1>>
              ELSE RNorm(a[1] * b[2] - b[1] * a[2], a[2] * b[2])
RMul(a, b) == IF a[2] = 0 \/ b[2] = 0 THEN NonFinite
              ELSE IF a[2] = b[2] /\ a[2] = 1 THEN <<a[1] * b[1], 1>>
              ELSE RNorm(a[1] * b[1], a[2] * b[2])
\* IEEE division: a zero divisor gives inf or NaN (no divisor of the program
\* is itself non-finite)
RDiv(a, b) == IF a[2] = 0 \/ b[2] = 0 \/ b[1] = 0 THEN NonFinite
              ELSE RNorm(a[1] * b[2], a[2] * b[1])
RPos(a) == a[2] # 0 /\ a[1] > 0

\* sum of f[lo] .. f[hi-1]; the arithmetic is exact, so the grouping of the
\* terms does not change the sum, and halving keeps the evaluation shallow
RECURSIVE RSumRange(_, _, _)
RSumRange(f, lo, hi) ==
  IF hi <= lo THEN Zero
  ELSE IF hi = lo + 1 THEN f[lo]
  ELSE LET mid == (lo + hi) \div 2
       IN RAdd(RSumRange(f, lo, mid), RSumRange(f, mid, hi))
\* sum of f[0] .. f[n-1]: the result of a += loop over the n terms
RSum(f, n) == RSumRange(f, 0, n)

\* integer 3-vectors (mju_sub3, mju_cross, mju_dot3 on integer-valued input)
Sub3(a, b) == [i \in 0..2 |-> a[i] - b[i]]
Cross(a, b) == [i \in 0..2 |->
                 a[(i + 1) % 3] * b[(i + 2) % 3] - a[(i + 2) % 3] * b[(i + 1) % 3]]
Dot3(a, b) == a[0] * b[0] + a[1] * b[1] + a[2] * b[2]

\* a 0-based array from a sequence
Arr(s) == [i \in 0..(Len(s) - 1) |-> s[i + 1]]
\* the array f with every entry computed once
Tab(f) == f @@ <<>>

-----------------------------------------------------------------------------
\* Stencil3D and the local tetrahedron numbering.

kNumEdges == 6
kNumVerts == 4
\* Stencil3D::edge
edge == Arr(<<Arr(<<0, 1>>), Arr(<<1, 2>>), Arr(<<2, 0>>),
              Arr(<<2, 3>>), Arr(<<0, 3>>), Arr(<<1, 3>>)>>)
face == Arr(<<Arr(<<2, 1, 0>>), Arr(<<0, 1, 3>>), Arr(<<1, 2, 3>>), Arr(<<2, 0, 3>>)>>)
e2f == Arr(<<Arr(<<2, 3>>), Arr(<<1, 3>>), Arr(<<2, 1>>),
             Arr(<<1, 0>>), Arr(<<0, 2>>), Arr(<<0, 3>>)>>)

-----------------------------------------------------------------------------
\* The host model (mjModel): one flex of two tetrahedra sharing a face.

instance == 0
flex_dim == 3
\* m->flex_elem: the vertices of each element
flex_elem == Arr(<<0, 1, 2, 3,  1, 2, 3, 4>>)
\* m->flex_elemedge: the global edge of each local edge of each element
flex_elemedge == Arr(<<0, 1, 2, 3, 4, 5,  1, 3, 5, 6, 7, 8>>)
flex_elemnum == Cardinality(DOMAIN flex_elem) \div (flex_dim + 1)
flex_vertnum == Cardinality({flex_elem[i] : i \in DOMAIN flex_elem})
flex_edgenum == Cardinality({flex_elemedge[i] : i \in DOMAIN flex_elemedge})
\* m->flexedge_length0: reference edge lengths
flexedge_length0 == [i \in 0..(flex_edgenum - 1) |-> IF i \in {1, 3, 5} THEN 2 ELSE 1]
\* m->opt.timestep
timestep == <<1, 2>>

\* rest shapes: a regular pair of tetrahedra, and one whose second
\* tetrahedron is flat (vertex 4 in the plane of vertices 1, 2, 3)
RestShapes == { Arr(<<0, 0, 0,  1, 0, 0,  0, 1, 0,  0, 0, 1,  1, 1, 1>>),
                Arr(<<0, 0, 0,  1, 0, 0,  0, 1, 0,  0, 0, 1,  1, 1, -1>>) }

\* body tables.  Body 0 is the world; vertex v is carried by body v + 1
\* unless it is pinned to the world.
nbody == flex_vertnum + 1
BodyTable(pinned, short, foreign) ==
  [ vertbodyid |-> [v \in 0..(flex_vertnum - 1) |-> IF v \in pinned THEN 0 ELSE v + 1],
    simple     |-> [b \in 0..(nbody - 1) |-> IF b = 0 THEN 1 ELSE 2],
    dofnum     |-> [b \in 0..(nbody - 1) |->
                     IF b = 0 \/ (b - 1) \in pinned THEN 0
                     ELSE IF (b - 1) \in short THEN 2 ELSE 3],
    plugin     |-> [b \in 0..(nbody - 1) |->
                     IF b = 0 \/ (b - 1) \in pinned \/ (b - 1) \in foreign
                     THEN -1 ELSE instance] ]
BodyTables == { BodyTable({}, {}, {}),      \* every vertex on a 3-slider body
                BodyTable({0}, {1}, {}),    \* vertex 0 pinned to the world,
                                            \* vertex 1 on a 2-slider body
                BodyTable({}, {}, {1}) }    \* vertex 1's body lacks the plugin
\* m->body_dofadr
body_dofadr(b, bid) ==
  LET RECURSIVE Adr(_)
      Adr(k) == IF k = 0 THEN 0 ELSE Adr(k - 1) + b.dofnum[k - 1]
  IN Adr(bid)
\* m->nv: number of degrees of freedom
ndof(b) == body_dofadr(b, nbody)

\* plugin configuration: an attribute text is <<kind, n, d>> with kind 0 for
\* an absent attribute (empty text), 1 for text that is not a number (n/d is
\* the value of its longest numeric prefix) and 2 for the number n/d
Absent == <<0, 0, 1>>
Malformed == <<1, 0, 1>>
Num(n, d) == <<2, n, d>>
ValidCfgs ==
  [ face : {Num(1, 1)}, edge : {Num(1, 1)}, poisson : {Num(1, 4)},
    young : {Num(60, 1)},
    damping : {Num(k, 1) : k \in 0..MaxDamp} \cup {Absent} ]
BaseCfg == [face |-> Num(1, 1), edge |-> Num(1, 1), poisson |-> Num(1, 4),
            young |-> Num(60, 1), damping |-> Num(1, 1)]
InvalidCfgs ==
  { [BaseCfg EXCEPT ![a] = bad] :
      a \in {"face", "edge", "poisson", "young"}, bad \in {Absent, Malformed} }
Cfgs == ValidCfgs \cup InvalidCfgs

\* strtod: the value of the longest numeric prefix, 0 when there is none
Strtod(a) == IF a[1] = 0 THEN Zero ELSE <<a[2], a[3]>>
\* CheckAttr: the attribute is present and is a number
CheckAttr(name, c) == c[name][1] = 2

-----------------------------------------------------------------------------
\* Construction: solid.cc.

\* position of vertex i in a flat position array
Pos(x, i) == [c \in 0..2 |-> x[3 * i + c]]
\* the vertices of element t
ElemVerts(t) == [i \in 0..(kNumVerts - 1) |-> flex_elem[(flex_dim + 1) * t + i]]

\* volume of a tetrahedron
ComputeVolume(x, v) ==
  LET edge1 == Sub3(Pos(x, v[1]), Pos(x, v[0]))
      edge2 == Sub3(Pos(x, v[2]), Pos(x, v[0]))
      edge3 == Sub3(Pos(x, v[3]), Pos(x, v[0]))
      normal == Cross(edge2, edge1)
  IN RDiv(R(Dot3(normal, edge3)), R(6))

\* local basis of one edge, from the two faces not adjacent to it
ComputeBasis(x, v, faceL, faceR, volume) ==
  LET edgesL0 == Sub3(Pos(x, v[faceL[1]]), Pos(x, v[faceL[0]]))
      edgesL3 == Sub3(Pos(x, v[faceL[2]]), Pos(x, v[faceL[0]]))
      edgesR0 == Sub3(Pos(x, v[faceR[1]]), Pos(x, v[faceR[0]]))
      edgesR3 == Sub3(Pos(x, v[faceR[2]]), Pos(x, v[faceR[0]]))
      normalL == Cross(edgesL0, edgesL3)
      normalR == Cross(edgesR0, edgesR3)
      denom == RMul(R(36 * 2), RMul(volume, volume))
  IN Tab([p \in 0..8 |->
            LET i == p \div 3
                j == p % 3
            IN RDiv(R(normalL[i] * normalR[j] + normalR[i] * normalL[j]), denom)])

\* first invariant: trace of each basis tensor
TraceE(basis) ==
  Tab([e \in 0..(kNumEdges - 1) |-> RSum([i \in 0..2 |-> basis[e][4 * i]], 3)])
\* second invariant: trace of the product of two basis tensors
TraceEE(basis) ==
  [p \in 0..(kNumEdges * kNumEdges - 1) |->
    LET ed1 == p \div kNumEdges
        ed2 == p % kNumEdges
    IN RSum([q \in 0..8 |->
              LET i == q \div 3
                  j == q % 3
              IN RMul(basis[ed1][3 * i + j], basis[ed2][3 * j + i])], 9)]
\* an entry whose volumetric term uses the trace of the second edge twice
MetricEntryAsym(mu, la, trE, trEE, ed1, ed2) ==
  RAdd(RMul(mu, trEE[kNumEdges * ed1 + ed2]), RMul(RMul(la, trE[ed2]), trE[ed2]))
\* one entry of the strain metric tensor
MetricEntry(mu, la, trE, trEE, ed1, ed2) ==
  RAdd(RMul(mu, trEE[kNumEdges * ed1 + ed2]), RMul(RMul(la, trE[ed2]), trE[ed1]))
\* assembly of the full strain metric tensor k
AssembleK(mu, la, basis) ==
  LET trE == TraceE(basis)
      trEE == TraceEE(basis)
  IN Tab([p \in 0..(kNumEdges * kNumEdges - 1) |->
            MetricEntry(mu, la, trE, trEE, p \div kNumEdges, p % kNumEdges)])

\* the edge pairs in the order the triangular loops visit them; the pair
\* visited with counter value id is PackSeq[id + 1]
RECURSIVE PackFrom(_, _)
PackFrom(ed1, ed2) ==
  IF ed1 = kNumEdges THEN <<>>
  ELSE IF ed2 = kNumEdges THEN PackFrom(ed1 + 1, ed1 + 1)
  ELSE <<<<ed1, ed2>>>> \o PackFrom(ed1, ed2 + 1)
PackSeq == PackFrom(0, 0)
\* a packing whose element stride is one slot short
PackSlotTight(idx, id) == 20 * idx + id
\* metric[21*idx + id] as written by MetricTensor
PackSlot(idx, id) == 21 * idx + id
\* copy to triangular representation: the slots written for element idx take
\* the entry of k of the pair that was visited with their counter value
WritePacked(metric, idx, k) ==
  LET ids == 0..(Len(PackSeq) - 1)
  IN Tab([s \in DOMAIN metric |->
            IF \E id \in ids : PackSlot(idx, id) = s
            THEN LET id == CHOOSE id \in ids : PackSlot(idx, id) = s
                 IN k[kNumEdges * PackSeq[id + 1][1] + PackSeq[id + 1][2]]
            ELSE metric[s]])
\* the final check of MetricTensor: mju_error unless it holds
MetricSizeOk == Len(PackSeq) = (kNumEdges * (kNumEdges + 1)) \div 2
\* compute metric tensor of edge lengths inner product
MetricTensor(metric, idx, mu, la, basis) ==
  WritePacked(metric, idx, AssembleK(mu, la, basis))

\* material parameters of element t
Mu(E, nu, volume) ==
  RMul(RDiv(E, RMul(R(2), RAdd(R(1), nu))), volume)
La(E, nu, volume) ==
  RMul(RDiv(RMul(E, nu),
            RMul(RAdd(R(1), nu), RSub(R(1), RMul(R(2), nu)))), volume)
\* the six edge bases of element t
ElemBasis(x, t) ==
  LET v == ElemVerts(t)
      volume == ComputeVolume(x, v)
  IN Tab([e \in 0..(kNumEdges - 1) |->
            ComputeBasis(x, v, face[e2f[e][0]], face[e2f[e][1]], volume)])
\* the loop over all tetrahedra of the constructor: the stiffness array
\* after elements 0 .. n-1
RECURSIVE ElementLoop(_, _, _, _, _)
ElementLoop(metric, x, nu, E, n) ==
  IF n = 0 THEN metric
  ELSE LET t == n - 1
           volume == ComputeVolume(x, ElemVerts(t))
       IN MetricTensor(ElementLoop(metric, x, nu, E, t), t,
                       Mu(E, nu, volume), La(E, nu, volume), ElemBasis(x, t))

\* the full metric tensor k the constructor assembles for element t
ElemK(c, x, t) ==
  LET volume == ComputeVolume(x, ElemVerts(t))
      E == Strtod(c.young)
      nu == Strtod(c.poisson)
  IN AssembleK(Mu(E, nu, volume), La(E, nu, volume), ElemBasis(x, t))

\* the constructor's mju_error: a vertex of an element sits on a body other
\* than the world that does not carry this plugin instance
BodyMismatch(b) ==
  \E t \in 0..(flex_elemnum - 1), i \in 0..(kNumVerts - 1) :
    LET bi == b.vertbodyid[ElemVerts(t)[i]]
    IN bi # 0 /\ b.plugin[bi] # instance
\* first body carrying the plugin instance
FirstBody(b) ==
  LET P == {i \in 1..(nbody - 1) : b.plugin[i] = instance}
  IN CHOOSE i \in P : \A j \in P : i <= j
\* the flex that holds a vertex of body i0 (-1: none)
FindFlex(b) ==
  IF \E j \in 0..(flex_vertnum - 1) : b.vertbodyid[j] = FirstBody(b) THEN 0 ELSE -1

\* the Solid object built by the constructor
NewSolid(damp) ==
  [ f0 |-> FindFlex(bodies), damping |-> damp,
    nv |-> flex_vertnum, ne |-> flex_edgenum,
    prev |-> <<>>,
    elongation |-> [i \in 0..(flex_edgenum - 1) |-> Zero],
    force |-> [i \in 0..(3 * flex_vertnum - 1) |-> Zero] ]
NoSolid == [f0 |-> -1, damping |-> Zero, nv |-> 0, ne |-> 0, prev |-> <<>>,
            elongation |-> <<>>, force |-> <<>>]

\* the attributes Solid::Create requires
RequiredAttrs == {"face", "edge", "poisson", "young"}
\* a factory that does not look at the young attribute
CreateUnchecked(c) ==
  CheckAttr("face", c) /\ CheckAttr("edge", c) /\ CheckAttr("poisson", c)
\* factory function: the four attributes it requires
Create(c) ==
  CheckAttr("face", c) /\ CheckAttr("edge", c) /\
  CheckAttr("poisson", c) /\ CheckAttr("young", c)

-----------------------------------------------------------------------------
\* The per-step computation: Solid::Compute and elasticity.h.

\* elongation of every edge: elastic term plus generalized Rayleigh damping
Elongation(deformed, ref, prev, kD) ==
  Tab([idx \in 0..(flex_edgenum - 1) |->
        RAdd(R(deformed[idx] * deformed[idx] - ref[idx] * ref[idx]),
             RMul(R(deformed[idx] * deformed[idx] - prev[idx] * prev[idx]), kD))])

\* gradients of edge lengths with respect to vertex positions
GradSquaredLengths(x, v) ==
  [e \in 0..(kNumEdges - 1) |->
    [i \in 0..1 |->
      [d \in 0..2 |-> x[3 * v[edge[e][i]] + d] - x[3 * v[edge[e][1 - i]] + d]]]]

\* k[21*t + id] as read by ComputeForce
UnpackSlot(t, id) == 21 * t + id
\* unpack triangular representation: both metric[6*ed1+ed2] and
\* metric[6*ed2+ed1] take the value read with the counter value of the pair
Unpack(k, t) ==
  Tab([p \in 0..(kNumEdges * kNumEdges - 1) |->
        LET a == p \div kNumEdges
            b == p % kNumEdges
            ed1 == IF a <= b THEN a ELSE b
            ed2 == IF a <= b THEN b ELSE a
            id == CHOOSE id \in 0..(Len(PackSeq) - 1) :
                    PackSeq[id + 1] = <<ed1, ed2>>
        IN k[UnpackSlot(t, id)]])

\* the contribution of loop iteration (ed1, ed2, i) to a local force entry
ForceTerm(elongation, gradient, metric, ed1, ed2, i, x) ==
  RMul(RMul(elongation[ed1], R(gradient[ed2][i][x])),
       metric[kNumEdges * ed1 + ed2])
\* the loop iterations (ed2, i) whose target force[3*edge[ed2][i] + x] lies
\* on local vertex lv, in loop order
EdgeEnds == <<<<0, 0>>, <<0, 1>>, <<1, 0>>, <<1, 1>>, <<2, 0>>, <<2, 1>>,
              <<3, 0>>, <<3, 1>>, <<4, 0>>, <<4, 1>>, <<5, 0>>, <<5, 1>>>>
Incident ==
  Tab([lv \in 0..(kNumVerts - 1) |->
        SelectSeq(EdgeEnds, LAMBDA p : edge[p[1]][p[2]] = lv)])
\* entry 3*lv + x of the local force of one element: the loop nest over
\* (ed1, ed2, i) subtracts from zero every term that lands on local vertex lv
LocalEntry(elongation, gradient, metric, lv, x) ==
  RSub(Zero,
    RSum([ed1 \in 0..(kNumEdges - 1) |->
      RSum([j \in 0..(Len(Incident[lv]) - 1) |->
        ForceTerm(elongation, gradient, metric, ed1,
                  Incident[lv][j + 1][1], Incident[lv][j + 1][2], x)],
        Len(Incident[lv]))], kNumEdges))
\* local force of element t
LocalForce(elongationglob, k, xpos, t) ==
  LET v == ElemVerts(t)
      gradient == GradSquaredLengths(xpos, v)
      elongation == [e \in 0..(kNumEdges - 1) |->
                      elongationglob[flex_elemedge[t * kNumEdges + e]]]
      metric == Unpack(k, t)
  IN Tab([p \in 0..(kNumVerts * 3 - 1) |->
            LocalEntry(elongation, gradient, metric, p \div 3, p % 3)])
\* a force buffer that is not cleared
KeepForce(qfrc) == qfrc
\* mju_zero of the global force buffer
ZeroForce(qfrc) == [g \in DOMAIN qfrc |-> Zero]
\* insert into global force the local force of element t: its vertices are
\* distinct, so each entry of the buffer gains at most one local entry
InsertLocal(qfrc, force, t) ==
  LET v == ElemVerts(t)
  IN Tab([g \in DOMAIN qfrc |->
            IF \E i \in 0..(kNumVerts - 1) : v[i] = g \div 3
            THEN LET i == CHOOSE i \in 0..(kNumVerts - 1) : v[i] = g \div 3
                 IN RAdd(qfrc[g], force[3 * i + (g % 3)])
            ELSE qfrc[g]])
\* compute force element-by-element: the buffer after elements 0 .. n-1
RECURSIVE ElementForces(_, _, _, _, _)
ElementForces(qfrc, elongationglob, k, xpos, n) ==
  IF n = 0 THEN qfrc
  ELSE InsertLocal(ElementForces(qfrc, elongationglob, k, xpos, n - 1),
                   LocalForce(elongationglob, k, xpos, n - 1), n - 1)
\* the force buffer after ComputeForce; qfrc is the buffer on entry
ComputeForce(qfrc, elongationglob, k, xpos) ==
  ElementForces(ZeroForce(qfrc), elongationglob, k, xpos, flex_elemnum)

\* mj_applyFT: a point force on body bid at the given world position
ApplyFT(calls, f, point, bid) == Append(calls, <<bid, f, point>>)
\* the direct path of AddFlexForce for one vertex: slot adr + x gains
\* force[3v + x] for each x below n
DirectAdd(qfrc, force, v, adr, n) ==
  Tab([p \in DOMAIN qfrc |->
        IF adr <= p /\ p < adr + n
        THEN RAdd(qfrc[p], force[3 * v + (p - adr)])
        ELSE qfrc[p]])
\* a test that sends only bodies with simple = 0 down the general path
GeneralPathLoose(b, bid) == b.simple[bid] = 0
\* whether AddFlexForce takes the general path for a body
GeneralPath(b, bid) == b.simple[bid] # 2
\* add flex force to degrees of freedom, vertices 0 .. n-1
RECURSIVE AddFlexForce(_, _, _, _, _)
AddFlexForce(acc, force, b, xpos, n) ==
  IF n = 0 THEN acc
  ELSE LET a == AddFlexForce(acc, force, b, xpos, n - 1)
           v == n - 1
           bid == b.vertbodyid[v]
       IN IF GeneralPath(b, bid)
          THEN [a EXCEPT !.calls =
                  ApplyFT(a.calls, [x \in 0..2 |-> force[3 * v + x]], Pos(xpos, v), bid)]
          ELSE [a EXCEPT !.qfrc =
                  DirectAdd(a.qfrc, force, v, body_dofadr(b, bid), b.dofnum[bid])]

\* a Compute that stores the deformed lengths whatever the damping is
UpdatePrevAlways(kD) == TRUE
\* whether Compute stores the deformed lengths as the previous lengths
UpdatePrev(kD) == RPos(kD)
\* a Compute whose damping term always compares with the reference lengths
PrevOnEntryStale(prev, ref) == ref
\* the previous lengths the elongation is computed from
PrevOnEntry(prev, ref) == IF prev = <<>> THEN ref ELSE prev

\* inputs of a step
EdgeLengths ==
  {flexedge_length0}
  \cup {[i \in 0..(flex_edgenum - 1) |-> a] : a \in 1..MaxLen}
  \cup {[i \in 0..(flex_edgenum - 1) |-> IF i = 6 THEN MaxLen ELSE 1]}
Positions(x0) ==
  {x0, [p \in DOMAIN x0 |-> IF p = 3 * (flex_vertnum - 1) THEN x0[p] + 1 ELSE x0[p]]}
Accumulators(b) == {[i \in 0..(ndof(b) - 1) |-> R(i + 1)]}

-----------------------------------------------------------------------------
\* The state machine.

Init ==
  /\ cfg \in Cfgs
  /\ xvert0 \in RestShapes
  /\ bodies \in BodyTables
  /\ flex_stiffness = Tab([p \in 0..(21 * flex_elemnum - 1) |-> Zero])
  /\ phase = "load"
  /\ init_result = 2
  /\ plugin_data = 0
  /\ solid = NoSolid
  /\ flexedge_length = <<>>
  /\ flexvert_xpos = <<>>
  /\ qfrc_in = <<>>
  /\ qfrc_passive = <<>>
  /\ ft_calls = <<>>
  /\ prev_access = [read |-> FALSE, write |-> FALSE]
  /\ repeated = FALSE

\* plugin.init: Solid::Create and, when it yields a Solid, the constructor
PluginInit ==
  /\ phase = "load"
  /\ IF ~Create(cfg)
     THEN /\ init_result' = -1
          /\ phase' = "failed"
          /\ UNCHANGED <<flex_stiffness, plugin_data, solid>>
     ELSE IF BodyMismatch(bodies) \/ ~MetricSizeOk
     THEN \* mju_error: the process ends inside the constructor
          /\ phase' = "aborted"
          /\ UNCHANGED <<flex_stiffness, init_result, plugin_data, solid>>
     ELSE /\ flex_stiffness' =
               ElementLoop(flex_stiffness, xvert0, Strtod(cfg.poisson),
                           Strtod(cfg.young), flex_elemnum)
          /\ solid' = NewSolid(Strtod(cfg.damping))
          /\ plugin_data' = 1
          /\ init_result' = 0
          /\ phase' = "live"
  /\ UNCHANGED <<cfg, xvert0, bodies, flexedge_length, flexvert_xpos, qfrc_in,
                 qfrc_passive, ft_calls, prev_access, repeated>>

\* plugin.compute: the host has written the step's edge lengths, vertex
\* positions and passive-force accumulator, and calls Solid::Compute
PluginCompute ==
  /\ phase = "live"
  /\ plugin_data = 1
  /\ \E deformed \in EdgeLengths, xpos \in Positions(xvert0),
        q \in Accumulators(bodies) :
       LET kD == RDiv(solid.damping, timestep)
           ref == flexedge_length0
           prev == PrevOnEntry(solid.prev, ref)
           elongation == Elongation(deformed, ref, prev, kD)
           force == ComputeForce(solid.force, elongation, flex_stiffness, xpos)
           \* AddFlexForce reads the force member ComputeForce has written
           added == AddFlexForce([qfrc |-> q, calls |-> <<>>], solid'.force,
                                 bodies, xpos, flex_vertnum)
       IN /\ flexedge_length' = deformed
          /\ flexvert_xpos' = xpos
          /\ qfrc_in' = q
          /\ solid' = [solid EXCEPT
                         !.prev = IF UpdatePrev(kD) THEN deformed ELSE prev,
                         !.elongation = elongation,
                         !.force = force]
          /\ qfrc_passive' = added.qfrc
          /\ ft_calls' = added.calls
          /\ prev_access' = [read |-> flex_edgenum > 0,
                             write |-> solid.prev = <<>> \/ UpdatePrev(kD)]
          /\ repeated' = (deformed = flexedge_length /\ xpos = flexvert_xpos)
  /\ UNCHANGED <<cfg, xvert0, bodies, flex_stiffness, phase, init_result,
                 plugin_data>>

\* plugin.destroy
PluginDestroy ==
  /\ phase = "live"
  /\ plugin_data = 1
  /\ plugin_data' = 0
  /\ solid' = NoSolid
  /\ phase' = "dead"
  /\ UNCHANGED <<cfg, xvert0, bodies, flex_stiffness, init_result,
                 flexedge_length, flexvert_xpos, qfrc_in, qfrc_passive,
                 ft_calls, prev_access, repeated>>

Next == PluginInit \/ PluginCompute \/ PluginDestroy

Spec == Init /\ [][Next]_vars

-----------------------------------------------------------------------------
\* Properties.

\* a step of Solid::Compute: the only step that starts and ends live
ComputeStep == phase = "live" /\ phase' = "live"
\* a state in which Solid::Compute has run
Computed == phase = "live" /\ flexedge_length # <<>>
\* kD of the instance
DampingRate == RDiv(solid.damping, timestep)
\* d[i]^2 - r[i]^2 for two arrays of edge lengths
SquaredDiff(d, r) == [i \in 0..(flex_edgenum - 1) |-> R(d[i] * d[i] - r[i] * r[i])]

\* C1: with a positive damping rate, every Compute leaves the previous-length
\* buffer equal to the deformed lengths it was given, and the elongation of
\* edge i is (d^2 - r^2) + kD * (d^2 - p^2), where p is the reference length
\* in the first step and the deformed length of the step before afterwards.
C1_DampingHistory ==
  [][ (ComputeStep /\ RPos(DampingRate)) =>
        LET d == flexedge_length'
            p == IF flexedge_length = <<>> THEN flexedge_length0
                 ELSE flexedge_length
        IN /\ solid'.prev = d
           /\ \A i \in 0..(flex_edgenum - 1) :
                solid'.elongation[i] =
                  RAdd(SquaredDiff(d, flexedge_length0)[i],
                       RMul(DampingRate, SquaredDiff(d, p)[i])) ]_vars
\* a second or later damped step whose lengths differ from the step before
C1_Witness ==
  /\ Computed
  /\ RPos(DampingRate)
  /\ solid.prev = flexedge_length
  /\ \E i \in 0..(flex_edgenum - 1) :
       solid.elongation[i] #
         RMul(RAdd(R(1), DampingRate),
              SquaredDiff(flexedge_length, flexedge_length0)[i])

\* C2 as stated: with damping 0 the previous-length buffer is neither read
\* nor written by Compute, and every elongation is exactly d^2 - r^2.
C2_NeverTouched ==
  (Computed /\ solid.damping = Zero) =>
    /\ ~prev_access.read
    /\ ~prev_access.write
    /\ solid.elongation = SquaredDiff(flexedge_length, flexedge_length0)
\* C2, amended: with damping 0 every Compute reads the previous-length
\* buffer, only the first Compute writes it (with the reference lengths), it
\* holds the reference lengths ever after, and every elongation is exactly
\* d^2 - r^2.
C2_DampingInert ==
  [][ (ComputeStep /\ solid.damping = Zero) =>
        /\ prev_access'.read
        /\ prev_access'.write <=> (solid.prev = <<>>)
        /\ solid'.prev = flexedge_length0
        /\ solid'.elongation = SquaredDiff(flexedge_length', flexedge_length0) ]_vars
\* an undamped instance after a step with stretched edges
C2_Witness ==
  /\ Computed
  /\ solid.damping = Zero
  /\ flexedge_length # flexedge_length0
  /\ solid.prev = flexedge_length0
  /\ ~prev_access.write

Degenerate(x) ==
  \E t \in 0..(flex_elemnum - 1) : ComputeVolume(x, ElemVerts(t)) = Zero
\* C4 as stated: when some tetrahedron has rest volume zero, construction
\* fails and no value computed with a zero denominator is stored.
C4_DegenerateRejected ==
  (Degenerate(xvert0) /\ phase # "load") =>
    /\ phase \in {"failed", "aborted"}
    /\ plugin_data = 0
    /\ \A p \in DOMAIN flex_stiffness : IsFinite(flex_stiffness[p])

\* C5 as stated: when every deformed length equals its reference length and
\* every elongation is zero, every component of the force buffer is zero
\* after Compute.
C5_ZeroDeformationZeroForce ==
  ( /\ Computed
    /\ flexedge_length = flexedge_length0
    /\ \A i \in 0..(flex_edgenum - 1) : solid.elongation[i] = Zero ) =>
    \A g \in 0..(3 * flex_vertnum - 1) : solid.force[g] = Zero

\* C6 as stated: after Compute the local forces of every element sum to the
\* zero vector over its vertices, and so does the global force buffer over
\* all vertices.
C6_Conservation ==
  Computed =>
    /\ \A t \in 0..(flex_elemnum - 1), x \in 0..2 :
         LET local == LocalForce(solid.elongation, flex_stiffness,
                                 flexvert_xpos, t)
         IN RSum([i \in 0..(kNumVerts - 1) |-> local[3 * i + x]], kNumVerts) = Zero
    /\ \A x \in 0..2 :
         RSum([v \in 0..(flex_vertnum - 1) |-> solid.force[3 * v + x]],
              flex_vertnum) = Zero

\* C7: for every element the assembled tensor k is symmetric, and so is the
\* tensor ComputeForce unpacks from the packed stiffness.
C7_Symmetry ==
  phase = "live" =>
    \A t \in 0..(flex_elemnum - 1) :
      LET k == ElemK(cfg, xvert0, t)
          M == Unpack(flex_stiffness, t)
      IN \A i, j \in 0..(kNumEdges - 1) :
           /\ k[kNumEdges * i + j] = k[kNumEdges * j + i]
           /\ M[kNumEdges * i + j] = M[kNumEdges * j + i]
\* a live instance with a finite tensor whose rows are not constant
C7_Witness ==
  /\ phase = "live"
  /\ ~Degenerate(xvert0)
  /\ \E t \in 0..(flex_elemnum - 1) :
       LET M == Unpack(flex_stiffness, t)
       IN \E i, j \in 0..(kNumEdges - 1) :
            /\ i # j
            /\ M[kNumEdges * i + j] # Zero
            /\ M[kNumEdges * i + j] # M[kNumEdges * i + i]

\* C8: with damping 0, a Compute given the same edge lengths and vertex
\* positions as the Compute before it leaves the force buffer, the elongation,
\* the previous lengths and the stiffness as they were, adds the same
\* amount to every slot of the accumulator and makes the same mj_applyFT
\* calls.
C8_Idempotence ==
  [][ (ComputeStep /\ solid.damping = Zero /\ repeated') =>
        /\ solid'.force = solid.force
        /\ solid'.elongation = solid.elongation
        /\ solid'.prev = solid.prev
        /\ flex_stiffness' = flex_stiffness
        /\ ft_calls' = ft_calls
        /\ \A p \in DOMAIN qfrc_passive :
             RSub(qfrc_passive'[p], qfrc_in'[p]) = RSub(qfrc_passive[p], qfrc_in[p]) ]_vars
\* an undamped instance after a repeated step with a finite non-zero force
C8_Witness ==
  /\ Computed
  /\ solid.damping = Zero
  /\ repeated
  /\ \E g \in DOMAIN solid.force :
       IsFinite(solid.force[g]) /\ solid.force[g] # Zero

\* whether vertex v sits on a simple body (body_simple = 2)
OnSimpleBody(v) == bodies.simple[bodies.vertbodyid[v]] = 2
\* what slot p of the accumulator gains when every vertex v on a simple body
\* adds its first W[v] force components to the slots from its body's first
Gain(p, W) ==
  RSum([v \in 0..(flex_vertnum - 1) |->
         LET adr == body_dofadr(bodies, bodies.vertbodyid[v])
         IN IF OnSimpleBody(v) /\ adr <= p /\ p < adr + W[v]
            THEN solid.force[3 * v + (p - adr)]
            ELSE Zero], flex_vertnum)
\* the point forces of the vertices that are not on a simple body, in order
PointForces ==
  LET verts == SelectSeq([i \in 1..flex_vertnum |-> i - 1],
                         LAMBDA v : ~OnSimpleBody(v))
  IN [n \in 1..Len(verts) |->
       <<bodies.vertbodyid[verts[n]],
         [x \in 0..2 |-> solid.force[3 * verts[n] + x]],
         Pos(flexvert_xpos, verts[n])>>]
\* three components for every vertex
Three == [v \in 0..(flex_vertnum - 1) |-> 3]
\* as many components as the vertex's body has dofs
DofNum == [v \in 0..(flex_vertnum - 1) |-> bodies.dofnum[bodies.vertbodyid[v]]]

\* C9 as stated: every vertex on a simple body adds exactly its three force
\* components to the three slots from body_dofadr on and to no other slot;
\* every other vertex goes through mj_applyFT at its world position only.
C9_ThreeComponents ==
  Computed =>
    /\ \A p \in DOMAIN qfrc_passive :
         qfrc_passive[p] = RAdd(qfrc_in[p], Gain(p, Three))
    /\ ft_calls = PointForces
\* C9, amended: every vertex on a simple body adds force[3v + x] to slot
\* body_dofadr + x for each x below the body's number of dofs, and to no
\* other slot; every other vertex goes through mj_applyFT at its world
\* position only.
C9_Scatter ==
  Computed =>
    /\ \A p \in DOMAIN qfrc_passive :
         qfrc_passive[p] = RAdd(qfrc_in[p], Gain(p, DofNum))
    /\ ft_calls = PointForces
\* a step with a vertex on a simple body of two dofs whose third force
\* component is finite and not zero, and a vertex pinned to the world
C9_Witness ==
  /\ Computed
  /\ \E v \in 0..(flex_vertnum - 1) :
       /\ OnSimpleBody(v)
       /\ DofNum[v] = 2
       /\ IsFinite(solid.force[3 * v + 2])
       /\ solid.force[3 * v + 2] # Zero
  /\ \E v \in 0..(flex_vertnum - 1) : ~OnSimpleBody(v)
  /\ Len(ft_calls) > 0

\* the documented index of pair (i, j), i <= j, in the packed upper triangle
TriIndex(i, j) == (i * (2 * kNumEdges - i + 1)) \div 2 + (j - i)
\* C10: for every element t and i <= j, flex_stiffness[21t + idx(i, j)] is
\* the assembled entry k[i][j]; E(E+1)/2 entries are written per element;
\* ComputeForce reads entries (i, j) and (j, i) from that offset, so the
\* unpacked tensor equals the assembled one; slots of different elements
\* never overlap.
C10_PackedLayout ==
  phase = "live" =>
    /\ MetricSizeOk
    /\ \A t \in 0..(flex_elemnum - 1) :
         LET k == ElemK(cfg, xvert0, t)
         IN /\ \A i, j \in 0..(kNumEdges - 1) :
                 i <= j =>
                   /\ flex_stiffness[21 * t + TriIndex(i, j)] = k[kNumEdges * i + j]
                   /\ \E id \in 0..(Len(PackSeq) - 1) :
                        /\ PackSeq[id + 1] = <<i, j>>
                        /\ PackSlot(t, id) = 21 * t + TriIndex(i, j)
                        /\ UnpackSlot(t, id) = 21 * t + TriIndex(i, j)
            /\ Unpack(flex_stiffness, t) = k
    /\ \A t1, t2 \in 0..(flex_elemnum - 1), id1, id2 \in 0..(Len(PackSeq) - 1) :
         t1 # t2 => PackSlot(t1, id1) # PackSlot(t2, id2)
\* a live instance whose two elements hold different finite tensors
C10_Witness ==
  /\ phase = "live"
  /\ ~Degenerate(xvert0)
  /\ \E id \in 0..(Len(PackSeq) - 1) :
       /\ flex_stiffness[PackSlot(0, id)] # Zero
       /\ flex_stiffness[PackSlot(0, id)] # flex_stiffness[PackSlot(1, id)]
====
